---------------------------- MODULE Spec2Model ----------------------------
(***************************************************************************)
(* Event-flow animation sequencer of the Agentic Canvas frontend.          *)
(*                                                                         *)
(* Three visualizer classes are modelled, selected by the variable         *)
(* `variant`:                                                              *)
(*   "enhanced" : EnhancedEventFlowVisualizer, demo5/event-flow.js:6       *)
(*   "basic"    : EnhancedEventFlowVisualizer, demo5/event-flow.js:1392    *)
(*   "demo4"    : EventFlowVisualizer, unnamed/part_001:6                  *)
(*                                                                         *)
(* The browser runs one macrotask at a time.  An action of this module is  *)
(* one macrotask: a click handler, a fetch completion or a timer firing,   *)
(* executed up to the next point at which the async function suspends on   *)
(* a fetch or on a timer.                                                  *)
(*                                                                         *)
(* Not modelled: the 2 s statistics poll of the first class                *)
(* (startRealtimeUpdates), which overwrites #metricEvents with the         *)
(* server's total while a run is in progress; agents of scenarios sent by  *)
(* the server (only the mock scenario lists agents here); the methods of   *)
(* part_001 that no handler calls (executeScenario, animateEventFlow).     *)
(*                                                                         *)
(* The scenario controllers of demo4 follow at the end, each as a page of  *)
(* its own with the controller's fields in the record `ctl`: PricingSpec   *)
(* and SimulatorSpec (scenario7.js), InvestigationSpec (part_004,          *)
(* scenario1.js), SprintSpec (scenario6.js), DemoSpec (part_002) and       *)
(* MapSpec (part_003, map-controller.js).                                  *)
(***************************************************************************)
EXTENDS Naturals, Sequences, FiniteSets

(***************************************************************************)
(* Bounds of the exploration.                                              *)
(***************************************************************************)
MaxRuns == 2        \* run() invocations that pass the gate, per behaviour
MaxFlow == 2        \* longest step list of an ordinary server response
MaxClears == 2      \* Clear / Clear Log clicks per behaviour of several invocations
MaxClearsLong == 1  \* Clear / Clear Log clicks per behaviour of one invocation
MaxBusyCalls == 1   \* run() invocations made while isSimulating is true
MaxFaults == 1      \* responses that are not a well-formed success
MaxPauses == 1      \* Pause clicks per behaviour
MaxTimers == 2      \* setTimeout callbacks pending at one time

(***************************************************************************)
(* Program constants.                                                      *)
(***************************************************************************)
LogCap == 50            \* "Limit to 50 entries"
DemoFlowLen == 15       \* showDemoAnimation's demoFlow
MockFlowLen == 12       \* showDemoAnimationWithScenario's mockScenario.flow

(***************************************************************************)
(* System names and element ids are strings, modelled as sequences of      *)
(* characters so that the normalisation done by the lookups is computed.   *)
(***************************************************************************)
N_UI == <<"U", "I">>
N_Orchestrator == <<"O", "r", "c", "h", "e", "s", "t", "r", "a", "t", "o", "r">>
N_SAP_ERP == <<"S", "A", "P", "_", "E", "R", "P">>
N_Unknown_System == <<"U", "n", "k", "n", "o", "w", "n", "_", "S", "y", "s", "t", "e", "m">>
N_FormulationAgent == <<"F", "o", "r", "m", "u", "l", "a", "t", "i", "o", "n", "A", "g", "e", "n", "t">>
N_LIMS == <<"L", "I", "M", "S">>
N_TestProtocolAgent == <<"T", "e", "s", "t", "P", "r", "o", "t", "o", "c", "o", "l", "A", "g", "e", "n", "t">>
N_PLM == <<"P", "L", "M">>
N_RegulatoryAgent == <<"R", "e", "g", "u", "l", "a", "t", "o", "r", "y", "A", "g", "e", "n", "t">>
N_Regulatory_DB == <<"R", "e", "g", "u", "l", "a", "t", "o", "r", "y", "_", "D", "B">>
N_RAG_Engine == <<"R", "A", "G", "_", "E", "n", "g", "i", "n", "e">>
N_Vector_DB == <<"V", "e", "c", "t", "o", "r", "_", "D", "B">>
N_SupplyChainAgent == <<"S", "u", "p", "p", "l", "y", "C", "h", "a", "i", "n", "A", "g", "e", "n", "t">>
N_Supplier_Portal == <<"S", "u", "p", "p", "l", "i", "e", "r", "_", "P", "o", "r", "t", "a", "l">>
N_VAHAN_API == <<"V", "A", "H", "A", "N", "_", "A", "P", "I">>

NodePrefix == <<"n", "o", "d", "e", "-">>

Id_node_UI == NodePrefix \o N_UI
Id_node_Orchestrator == NodePrefix \o N_Orchestrator
Id_node_FormulationAgent == NodePrefix \o N_FormulationAgent
Id_node_SAP_ERP == NodePrefix \o N_SAP_ERP
Id_node_ui == <<"n", "o", "d", "e", "-", "u", "i">>
Id_node_orchestrator == <<"n", "o", "d", "e", "-", "o", "r", "c", "h", "e", "s", "t", "r", "a", "t", "o", "r">>
Id_node_sap_erp == <<"n", "o", "d", "e", "-", "s", "a", "p", "-", "e", "r", "p">>
Id_node_vahan == <<"n", "o", "d", "e", "-", "v", "a", "h", "a", "n">>

NoNode == <<>>      \* the null a failed lookup returns

(***************************************************************************)
(* The node registry is the page markup, which is not part of the scripts. *)
(* The demo5 page declares node-UI (initPersonaTooltip reads it) and ids   *)
(* that keep the underscore of the system name (the fallback lookup of     *)
(* getNodeElement); the demo4 page declares lower-case ids.                *)
(***************************************************************************)
Registry(v) ==
    IF v = "demo4"
    THEN {Id_node_ui, Id_node_orchestrator, Id_node_sap_erp}
    ELSE {Id_node_UI, Id_node_Orchestrator, Id_node_FormulationAgent, Id_node_SAP_ERP}

\* a lookup that hands out some node when the id is unknown (what C21 rules out)
C21_SomeNodeForUnknown(v, id) ==
    IF id \in Registry(v) THEN id ELSE CHOOSE n \in Registry(v) : TRUE

getElementById(v, id) == IF id \in Registry(v) THEN id ELSE NoNode

(***************************************************************************)
(* String helpers: the String.prototype methods the lookups use.           *)
(***************************************************************************)
UpperChars == <<"A", "B", "C", "D", "E", "F", "G", "H", "I", "J", "K", "L", "M",
                "N", "O", "P", "Q", "R", "S", "T", "U", "V", "W", "X", "Y", "Z">>
LowerChars == <<"a", "b", "c", "d", "e", "f", "g", "h", "i", "j", "k", "l", "m",
                "n", "o", "p", "q", "r", "s", "t", "u", "v", "w", "x", "y", "z">>

IsUpper(c) == \E k \in 1..Len(UpperChars) : UpperChars[k] = c

LowerChar(c) ==
    IF IsUpper(c)
    THEN LowerChars[CHOOSE k \in 1..Len(UpperChars) : UpperChars[k] = c]
    ELSE c

\* s.toLowerCase()
toLowerCase(s) == [k \in 1..Len(s) |-> LowerChar(s[k])]

\* s.replace(/[\s_]/g, '-'): every blank and underscore becomes a dash
ReplaceAllSeparators(s) ==
    [k \in 1..Len(s) |-> IF s[k] \in {" ", "_"} THEN "-" ELSE s[k]]

\* s.replace(c, '-') with a string pattern: only the first occurrence
ReplaceFirst(s, c) ==
    IF \E k \in 1..Len(s) : s[k] = c
    THEN LET f == CHOOSE k \in 1..Len(s) : s[k] = c /\ \A j \in 1..(k-1) : s[j] # c
         IN  [k \in 1..Len(s) |-> IF k = f THEN "-" ELSE s[k]]
    ELSE s

\* s.replace(/([A-Z])/g, '-$1'): a dash before every upper-case letter
RECURSIVE DashBeforeUpper(_)
DashBeforeUpper(s) ==
    IF s = <<>> THEN <<>>
    ELSE (IF IsUpper(Head(s)) THEN <<"-", Head(s)>> ELSE <<Head(s)>>)
         \o DashBeforeUpper(Tail(s))

\* s.substring(1)
Substring1(s) == IF s = <<>> THEN <<>> ELSE Tail(s)


(***************************************************************************)
(* Node lookup.                                                            *)
(***************************************************************************)
\* enhanced getNodeElement: dash-normalised id, then the name as it is
getNodeElementEnhanced(systemName) ==
    LET first == getElementById("enhanced", NodePrefix \o ReplaceAllSeparators(systemName))
    IN  IF first # NoNode THEN first
        ELSE getElementById("enhanced", NodePrefix \o systemName)

\* basic getNodeElement: the dash-normalised id only
getNodeElementBasic(systemName) ==
    getElementById("basic", NodePrefix \o ReplaceAllSeparators(systemName))

\* specialMappings of getNodeById (the entry for the names the model uses)
specialMappings(systemId) ==
    IF systemId = N_VAHAN_API THEN Id_node_vahan ELSE NoNode

\* the variations getNodeById tries, in order, after the direct match
variations(systemId) ==
    << NodePrefix \o systemId,
       NodePrefix \o ReplaceFirst(toLowerCase(systemId), "_"),
       NodePrefix \o ReplaceFirst(toLowerCase(systemId), " "),
       NodePrefix \o Substring1(toLowerCase(DashBeforeUpper(systemId))) >>

getNodeById(systemId) ==
    LET special == IF specialMappings(systemId) # NoNode
                   THEN getElementById("demo4", specialMappings(systemId))
                   ELSE NoNode
        direct  == getElementById("demo4", NodePrefix \o toLowerCase(systemId))
        vs      == variations(systemId)
        hits    == {k \in 1..Len(vs) : getElementById("demo4", vs[k]) # NoNode}
    IN  IF special # NoNode THEN special
        ELSE IF direct # NoNode THEN direct
        ELSE IF hits # {}
             THEN vs[CHOOSE k \in hits : \A j \in hits : k <= j]
             ELSE NoNode

Lookup(v, name) ==
    CASE v = "enhanced" -> getNodeElementEnhanced(name)
      [] v = "basic"    -> getNodeElementBasic(name)
      [] v = "demo4"    -> getNodeById(name)

\* the system names that occur in step lists
SystemNames ==
    {N_UI, N_Orchestrator, N_SAP_ERP, N_Unknown_System, N_FormulationAgent, N_LIMS,
     N_TestProtocolAgent, N_PLM, N_RegulatoryAgent, N_Regulatory_DB, N_RAG_Engine,
     N_Vector_DB, N_SupplyChainAgent, N_Supplier_Portal, N_VAHAN_API}

\* the lookups of every visualizer, tabulated
NodeOf == [v \in {"enhanced", "basic", "demo4"} |-> [name \in SystemNames |-> Lookup(v, name)]]

(***************************************************************************)
(* Step lists.  A step is {from, to, description, delay}; `desc` tells     *)
(* whether the step carries a description.  The delay only sets how long   *)
(* the loop sleeps, which the model leaves open.                           *)
(***************************************************************************)
Step(f, t, d) == [from |-> f, to |-> t, desc |-> d]

\* showDemoAnimationWithScenario: mockScenario.flow
MockFlow ==
    << Step(N_UI, N_Orchestrator, TRUE),
       Step(N_Orchestrator, N_FormulationAgent, TRUE),
       Step(N_FormulationAgent, N_SAP_ERP, TRUE),
       Step(N_SAP_ERP, N_FormulationAgent, TRUE),
       Step(N_FormulationAgent, N_LIMS, TRUE),
       Step(N_LIMS, N_FormulationAgent, TRUE),
       Step(N_TestProtocolAgent, N_PLM, TRUE),
       Step(N_PLM, N_TestProtocolAgent, TRUE),
       Step(N_RegulatoryAgent, N_Regulatory_DB, TRUE),
       Step(N_Regulatory_DB, N_RegulatoryAgent, TRUE),
       Step(N_FormulationAgent, N_Orchestrator, TRUE),
       Step(N_Orchestrator, N_UI, TRUE) >>

\* mockScenario.agents
MockAgents == <<N_FormulationAgent, N_TestProtocolAgent, N_RegulatoryAgent>>

\* showDemoAnimation: demoFlow
DemoFlow ==
    << Step(N_UI, N_Orchestrator, TRUE),
       Step(N_Orchestrator, N_FormulationAgent, TRUE),
       Step(N_FormulationAgent, N_SAP_ERP, TRUE),
       Step(N_SAP_ERP, N_FormulationAgent, TRUE),
       Step(N_FormulationAgent, N_RAG_Engine, TRUE),
       Step(N_RAG_Engine, N_Vector_DB, TRUE),
       Step(N_Vector_DB, N_RAG_Engine, TRUE),
       Step(N_FormulationAgent, N_LIMS, TRUE),
       Step(N_LIMS, N_FormulationAgent, TRUE),
       Step(N_RegulatoryAgent, N_Regulatory_DB, TRUE),
       Step(N_Regulatory_DB, N_RegulatoryAgent, TRUE),
       Step(N_SupplyChainAgent, N_Supplier_Portal, TRUE),
       Step(N_Supplier_Portal, N_SupplyChainAgent, TRUE),
       Step(N_FormulationAgent, N_Orchestrator, TRUE),
       Step(N_Orchestrator, N_UI, TRUE) >>

(***************************************************************************)
(* What the backend may send: step lists cut from a cycle of four steps    *)
(* (two that resolve, one whose target is no node of the page, one that    *)
(* has no description), and long lists for the behaviours that reach the   *)
(* log cap.                                                                *)
(***************************************************************************)
ServerCycle ==
    << Step(N_UI, N_Orchestrator, TRUE),
       Step(N_Orchestrator, N_SAP_ERP, TRUE),
       Step(N_UI, N_Unknown_System, TRUE),
       Step(N_UI, N_Orchestrator, FALSE) >>

ServerFlow(off, len) ==
    [k \in 1..len |-> ServerCycle[((off + k - 2) % Len(ServerCycle)) + 1]]

\* where in the cycle the lists of the backend begin
FlowOffsets == {1, 3}

\* the one-step list [{from: "UI", to: "Orchestrator", delay: 100}]
ExampleFlowId == [kind |-> "server", off |-> 4, len |-> 1]

FlowIds ==
    {[kind |-> "server", off |-> 1, len |-> 0], ExampleFlowId}
    \cup {[kind |-> "server", off |-> o, len |-> n] : o \in FlowOffsets, n \in 1..MaxFlow}

LongFlowIds == {[kind |-> "server", off |-> 1, len |-> LogCap + 1]}

MockFlowId == [kind |-> "mock", off |-> 1, len |-> MockFlowLen]
DemoFlowId == [kind |-> "demo", off |-> 1, len |-> DemoFlowLen]
NoFlowId   == [kind |-> "none", off |-> 1, len |-> 0]

\* long lists alternate the two steps that resolve
FlowOf(id) ==
    CASE id.kind = "mock" -> MockFlow
      [] id.kind = "demo" -> DemoFlow
      [] id.kind = "none" -> <<>>
      [] id.kind = "server" ->
            IF id.len > MaxFlow
            THEN [k \in 1..id.len |-> ServerCycle[2 - (k % 2)]]
            ELSE ServerFlow(id.off, id.len)

\* the step lists, tabulated
StepsOf ==
    [id \in FlowIds \cup LongFlowIds \cup {MockFlowId, DemoFlowId, NoFlowId} |-> FlowOf(id)]

(***************************************************************************)
(* State.                                                                  *)
(***************************************************************************)
VARIABLES
    variant,          \* which visualizer class the page runs
    profile,          \* which behaviours of the user and the backend are explored
    isSimulating,     \* this.isSimulating
    btnDisabled,      \* disabled attribute of btnSimulate / simulateFlow
    currentScenario,  \* this.currentScenario: "null", "server" or "mock"
    eventCount,       \* this.eventCount
    metricEvents,     \* text of #metricEvents (demo4: #activeEvents)
    log,              \* children of the log container, first child first
    classes,          \* classList of every .system-node
    timers,           \* pending setTimeout callbacks, in the order they were set
    clearsInFlight,   \* clear() calls of the Clear button awaiting their fetch
    animationPaused,  \* this.animationPaused
    runs,             \* the invocations of the run() function that passed the gate
    seq,              \* number of entries appended to the log so far
    clicks,           \* how often each bounded user action or fault has happened
    lastClear,        \* whether the latest macrotask was a clear() returning
    ctl               \* the fields of the page's scenario controller, when it has one

vars == << variant, profile, isSimulating, btnDisabled, currentScenario, eventCount,
           metricEvents, log, classes, timers, clearsInFlight, animationPaused,
           runs, seq, clicks, lastClear, ctl >>

\* the event-flow pages have no scenario controller
NoController == [page |-> "eventFlow"]

Variants == {"enhanced", "basic", "demo4"}

\* which behaviours of the user and the backend a behaviour explores:
\*   "concurrent"  several run() invocations, short well-formed step lists
\*   "faulty"      one invocation, short step lists, failing fetches
\*   "long"        one invocation, step lists longer than the log cap, failing fetches
Profiles == {"concurrent", "faulty", "long"}
RunIds == 1..MaxRuns

ClassNames == {"active", "processing", "receiving", "scenario-active",
               "scenario-involved", "context-active"}

Placeholder == [kind |-> "placeholder", id |-> 0]
ResultEntry == [kind |-> "result", id |-> 0]
EventEntry(n) == [kind |-> "event", id |-> n]

IdleRun == [pc |-> "idle", mode |-> "none", flow |-> NoFlowId, i |-> 0, appends |-> 0,
            src |-> NoNode, tgt |-> NoNode, toasts |-> {}, aborted |-> FALSE,
            alone |-> FALSE]

\* The part of the state the sequencer's methods read and write, as one record.
Cur == [isSimulating |-> isSimulating, btnDisabled |-> btnDisabled,
        currentScenario |-> currentScenario, eventCount |-> eventCount,
        metricEvents |-> metricEvents, log |-> log, classes |-> classes,
        timers |-> timers, seq |-> seq]

\* the next state holds record s (computed once, then taken apart)
Assign(s) ==
    \E t \in {s} :
        /\ Len(t.timers) <= MaxTimers
        /\ isSimulating' = t.isSimulating
        /\ btnDisabled' = t.btnDisabled
        /\ currentScenario' = t.currentScenario
        /\ eventCount' = t.eventCount
        /\ metricEvents' = t.metricEvents
        /\ log' = t.log
        /\ classes' = t.classes
        /\ timers' = t.timers
        /\ seq' = t.seq

(***************************************************************************)
(* classList and timers.                                                   *)
(***************************************************************************)
AddClasses(cls, node, names) ==
    IF node = NoNode THEN cls ELSE [cls EXCEPT ![node] = @ \cup names]

RemoveClasses(cls, node, names) ==
    IF node = NoNode THEN cls ELSE [cls EXCEPT ![node] = @ \ names]

RemoveFromAll(cls, names) == [n \in DOMAIN cls |-> cls[n] \ names]

AddToAll(cls, names) == [n \in DOMAIN cls |-> cls[n] \cup names]

\* setTimeout(callback, ms): kind names the callback, rand a Math.random() delay
Timer(kind, src, tgt, ms, rand) ==
    [kind |-> kind, src |-> src, tgt |-> tgt, ms |-> ms, rand |-> rand]

DeactivateDelayEnhanced == 1200
DeactivateDelay == 800
CleanupAllDelay == 2000
AgentDelayBound == 1000

(***************************************************************************)
(* The log container.                                                      *)
(***************************************************************************)
\* a clearEventLog that removes nothing (what C6 rules out)
C6_KeepEntries(s) == s

\* clearEventLog of the demo5 classes: remove every child
clearEventLog(s) == [s EXCEPT !.log = <<>>]

\* "Remove placeholder if it exists (only on first event)"
RemoveLonePlaceholder(l) ==
    IF Len(l) = 1 /\ l[1].kind = "placeholder" THEN <<>> ELSE l

\* querySelector('.event-log-empty').remove(): the first placeholder, if any
RemoveFirstPlaceholder(l) ==
    IF \E k \in 1..Len(l) : l[k].kind = "placeholder"
    THEN LET f == CHOOSE k \in 1..Len(l) :
                      l[k].kind = "placeholder" /\ \A j \in 1..(k-1) : l[j].kind # "placeholder"
         IN  SubSeq(l, 1, f - 1) \o SubSeq(l, f + 1, Len(l))
    ELSE l

\* while (children.length > 50) removeChild(lastChild)
LimitEntries(l) == IF Len(l) > LogCap THEN SubSeq(l, 1, LogCap) ELSE l

\* enhanced addEventToLog: the later of the two definitions in the class body
\* is the one the class has; it inserts at the top and does not limit
addEventToLogEnhanced(s) ==
    [s EXCEPT !.log = <<EventEntry(s.seq + 1)>> \o RemoveLonePlaceholder(s.log),
              !.seq = s.seq + 1]

\* basic addEventToLog: insert at the top, limit to 50
addEventToLogBasic(s) ==
    [s EXCEPT !.log = LimitEntries(<<EventEntry(s.seq + 1)>> \o RemoveLonePlaceholder(s.log)),
              !.seq = s.seq + 1]

\* demo4 addEnhancedEventToLog for a step that has a description
addEnhancedEventToLog(s) ==
    [s EXCEPT !.log = LimitEntries(<<EventEntry(s.seq + 1)>> \o RemoveFirstPlaceholder(s.log)),
              !.seq = s.seq + 1]

\* displayScenarioResult: a "result" entry inserted at the top
displayScenarioResult(s) == [s EXCEPT !.log = <<ResultEntry>> \o s.log]

(***************************************************************************)
(* clear() and its helpers.                                                *)
(***************************************************************************)
\* clearEventLog(); eventLogContent.appendChild(placeholder)
ShowPlaceholder(s) == Append(clearEventLog(s).log, Placeholder)

\* enhanced clear(), after its fetch has resolved
clearEnhanced(s) ==
    [s EXCEPT !.log = ShowPlaceholder(s),
              !.classes = RemoveFromAll(s.classes, ClassNames),
              !.eventCount = 0,
              !.metricEvents = 0,
              !.currentScenario = "null",
              !.isSimulating = FALSE]

\* basic clear(), after its fetch has resolved
clearBasic(s) ==
    [s EXCEPT !.log = ShowPlaceholder(s),
              !.eventCount = 0,
              !.metricEvents = 0]

\* demo4 cleanupAllNodeStates
cleanupAllNodeStatesDemo4(cls) ==
    RemoveFromAll(cls, {"active", "scenario-active", "processing", "receiving"})

\* demo4 clear(): synchronous
clearDemo4(s) ==
    [s EXCEPT !.classes = cleanupAllNodeStatesDemo4(s.classes),
              !.metricEvents = 0,
              !.log = <<Placeholder>>,
              !.isSimulating = FALSE,
              !.eventCount = 0]

\* demo4 clearEventLog(): the "Clear Log" handler, also called by animateFlowSteps
clearEventLogDemo4(s) ==
    [s EXCEPT !.classes = cleanupAllNodeStatesDemo4(s.classes),
              !.metricEvents = 0,
              !.log = <<Placeholder>>,
              !.isSimulating = FALSE,
              !.eventCount = 0]

\* clear() of the class the page runs
clear(v, s) ==
    CASE v = "enhanced" -> clearEnhanced(s)
      [] v = "basic"    -> clearBasic(s)
      [] v = "demo4"    -> clearDemo4(s)

\* enhanced cleanupAllNodeStates
cleanupAllNodeStates(s) ==
    [s EXCEPT !.classes = RemoveFromAll(s.classes,
                {"active", "processing", "receiving", "scenario-active", "scenario-involved"})]

\* enhanced startImmediateAnimation
startImmediateAnimation(s) ==
    [s EXCEPT !.classes = AddToAll(s.classes, {"scenario-involved"}),
              !.eventCount = 0,
              !.metricEvents = 0]

(***************************************************************************)
(* One step of the animation.                                              *)
(***************************************************************************)
\* nodes of the agents of this.currentScenario (only the mock scenario has agents)
AgentNodes(cs) ==
    IF cs = "mock"
    THEN {NodeOf["enhanced"][MockAgents[k]] : k \in 1..Len(MockAgents)} \ {NoNode}
    ELSE {}

\* enhanced highlightScenarioComponents
highlightScenarioComponents(s, src, tgt) ==
    LET cleared == RemoveFromAll(s.classes, {"scenario-involved"})
        marked  == (AgentNodes(s.currentScenario) \cup {src, tgt}) \ {NoNode}
    IN  [s EXCEPT !.classes =
            [n \in DOMAIN cleared |->
                IF n \in marked THEN cleared[n] \cup {"scenario-involved"} ELSE cleared[n]]]

\* enhanced displayScenarioInfo (the later definition), for the mock scenario:
\* agents are marked now and get "scenario-active" after Math.random()*1000 ms
RECURSIVE AgentTimers(_)
AgentTimers(nodes) ==
    IF nodes = {} THEN <<>>
    ELSE LET n == CHOOSE x \in nodes : TRUE
         IN  <<Timer("agent", n, NoNode, AgentDelayBound, TRUE)>> \o AgentTimers(nodes \ {n})

displayScenarioInfo(s) ==
    LET nodes == AgentNodes(s.currentScenario)
    IN  [s EXCEPT !.classes = [n \in DOMAIN s.classes |->
                                  IF n \in nodes THEN s.classes[n] \cup {"scenario-involved"}
                                  ELSE s.classes[n]],
                  !.timers = s.timers \o AgentTimers(nodes)]

\* enhanced updateRealtimeStats
updateRealtimeStats(s) ==
    [s EXCEPT !.eventCount = s.eventCount + 1, !.metricEvents = s.eventCount + 1]

\* the part of a step before the particle animation is awaited
StepBegin(v, s, src, tgt) ==
    CASE v = "enhanced" ->
            LET h == highlightScenarioComponents(s, src, tgt)
            IN  [h EXCEPT !.classes =
                    AddClasses(h.classes, src, {"active", "processing", "scenario-active"})]
      [] v = "basic" ->
            [s EXCEPT !.classes = AddClasses(s.classes, src, {"active", "processing"})]
      [] v = "demo4" ->
            [s EXCEPT !.classes =
                AddClasses(s.classes, src, {"active", "scenario-active", "processing"})]

\* the classes the step gives its target node
TargetClasses(v) ==
    CASE v = "enhanced" -> {"active", "scenario-active", "receiving"}
      [] v = "basic"    -> {"active"}
      [] v = "demo4"    -> {"active", "scenario-active", "receiving"}

\* the delay of the step's "deactivate" timeout
DeactivateMs(v) == IF v = "enhanced" THEN DeactivateDelayEnhanced ELSE DeactivateDelay

\* the part of a step after the particle animation: target highlight, log
\* entry, counters, and the timeout that removes the highlight
StepEnd(v, s, src, tgt) ==
    LET lit    == [s EXCEPT !.classes = AddClasses(s.classes, tgt, TargetClasses(v))]
        logged == CASE v = "enhanced" -> updateRealtimeStats(addEventToLogEnhanced(lit))
                    [] v = "basic"    -> addEventToLogBasic(lit)
                    [] v = "demo4"    ->
                         LET a == addEnhancedEventToLog(lit)
                         IN  [a EXCEPT !.eventCount = a.eventCount + 1,
                                       !.metricEvents = a.eventCount + 1]
    IN  [logged EXCEPT !.timers =
            Append(logged.timers, Timer("deactivate", src, tgt, DeactivateMs(v), FALSE))]

\* demo4 animateStep on a step without description: getEventType(step) throws
\* in addEnhancedEventToLog, after both highlights and after the placeholder
\* was removed, before the entry, the counter and the timeout
StepThrow(s, src, tgt) ==
    [s EXCEPT !.classes = AddClasses(s.classes, tgt, TargetClasses("demo4")),
              !.log = RemoveFirstPlaceholder(s.log)]

\* the loops over fetched events count each event after animateEvent returned
LoopCount(v, mode, s) ==
    IF mode = "events" /\ v \in {"enhanced", "basic"}
    THEN [s EXCEPT !.eventCount = s.eventCount + 1, !.metricEvents = s.eventCount + 1]
    ELSE s

(***************************************************************************)
(* The run: the async function from the gate to its finally block.  The    *)
(* operators below return the pair of the state record and the run record  *)
(* reached at the next await on a fetch or a timer.                        *)
(***************************************************************************)
Pair(s, r) == [s |-> s, r |-> r]

Toast(r, t) == [r EXCEPT !.toasts = @ \cup {t}]

\* a run that ends without its finally block (what C8 rules out)
C8_NoFinally(s, r) == [s |-> s, r |-> [r EXCEPT !.pc = "done"]]

\* finally { this.isSimulating = false; button.disabled = false }
Finally(s, r) ==
    Pair([s EXCEPT !.isSimulating = FALSE, !.btnDisabled = FALSE],
         [r EXCEPT !.pc = "done"])

\* what follows the step loop, up to the finally block
PostLoop(v, s, r) ==
    CASE v = "enhanced" /\ r.mode = "flow" ->
            Pair(displayScenarioResult(s), r)
      [] v = "enhanced" /\ r.mode \in {"badflow", "eventsEmpty"} ->
            Pair(displayScenarioResult(s), Toast(r, "success:completed"))
      [] v = "enhanced" /\ r.mode = "events" ->
            Pair(displayScenarioResult(
                    [s EXCEPT !.timers =
                        Append(s.timers, Timer("cleanupAll", NoNode, NoNode, CleanupAllDelay, FALSE))]),
                 Toast(r, "success:completed"))
      [] v = "enhanced" /\ r.mode = "noflow" ->
            Pair(displayScenarioResult(displayScenarioResult(s)), Toast(r, "success:completed"))
      [] v = "enhanced" /\ r.mode \in {"unsuccessful", "reject"} ->
            Pair(displayScenarioResult(s), Toast(r, "success:completed"))
      [] v = "basic" ->
            Pair(displayScenarioResult(s), Toast(r, "success:completed"))
      [] v = "demo4" ->
            Pair(s, Toast(r, "success:completed"))

Finish(v, s, r) ==
    LET p == PostLoop(v, s, r) IN Finally(p.s, p.r)

\* demo4: the exception of a step leaves the loop for the catch block
Abort(s, r) == Finally(s, Toast([r EXCEPT !.aborted = TRUE], "error:network"))

Throws(v, step) == v = "demo4" /\ ~step.desc

\* an await inside the step that is resolved by a timer: animateParticle
Suspends(v, src, tgt) == v \in {"enhanced", "basic"} /\ src # NoNode /\ tgt # NoNode

CurrentStep(r) == StepsOf[r.flow][r.i]

\* a step that gives up the run when a node is missing (what C18 rules out)
C18_MissingNodeAborts(v, s, r) ==
    IF r.src = NoNode \/ r.tgt = NoNode \/ Throws(v, CurrentStep(r))
    THEN Abort(StepThrow(s, r.src, r.tgt), r)
    ELSE Pair(LoopCount(v, r.mode, StepEnd(v, s, r.src, r.tgt)),
              [r EXCEPT !.pc = "sleep", !.appends = @ + 1])

\* the step after its particle animation, up to the sleep that follows it
AfterParticle(v, s, r) ==
    IF Throws(v, CurrentStep(r))
    THEN Abort(StepThrow(s, r.src, r.tgt), r)
    ELSE Pair(LoopCount(v, r.mode, StepEnd(v, s, r.src, r.tgt)),
              [r EXCEPT !.pc = "sleep", !.appends = @ + 1])

\* a lookup whose result depends on how many entries were logged before
\* the call (what C22 rules out)
C22_LookupDependsOnCalls(v, s, r) ==
    LET step == CurrentStep(r)
        src  == IF s.seq % 2 = 1 THEN NoNode ELSE NodeOf[v][step.from]
        tgt  == NodeOf[v][step.to]
        r1   == [r EXCEPT !.src = src, !.tgt = tgt]
        s1   == StepBegin(v, s, src, tgt)
    IN  IF Suspends(v, src, tgt)
        THEN Pair(s1, [r1 EXCEPT !.pc = "particle"])
        ELSE AfterParticle(v, s1, r1)

\* the loop body for step r.i, up to its first await on a timer
EnterStep(v, s, r) ==
    LET step == CurrentStep(r)
        src  == NodeOf[v][step.from]
        tgt  == NodeOf[v][step.to]
        r1   == [r EXCEPT !.src = src, !.tgt = tgt]
        s1   == StepBegin(v, s, src, tgt)
    IN  IF Suspends(v, src, tgt)
        THEN Pair(s1, [r1 EXCEPT !.pc = "particle"])
        ELSE AfterParticle(v, s1, r1)

\* a loop that never waits for resume (what C17 rules out)
C17_LoopIgnoresPause(v, s, r, paused) ==
    IF r.i > r.flow.len THEN Finish(v, s, r) ELSE EnterStep(v, s, r)

\* the loop condition, and demo4's waitForResume before each step
LoopHead(v, s, r, paused) ==
    IF r.i > r.flow.len THEN Finish(v, s, r)
    ELSE IF v = "demo4" /\ paused THEN Pair(s, [r EXCEPT !.pc = "waitResume"])
    ELSE EnterStep(v, s, r)

\* start the loop over `flow` in the given mode
StartLoop(v, s, r, mode, flow, paused) ==
    LoopHead(v, s, [r EXCEPT !.mode = mode, !.flow = flow, !.i = 1], paused)

\* a sequencer that ends the run when there is no flow array (what C19 rules out)
C19_NoFallback(s, r, mode) == Finally(s, [r EXCEPT !.mode = mode])

\* enhanced showDemoAnimation, up to its first await on a timer
showDemoAnimation(s, r, mode) ==
    StartLoop("enhanced", clearEventLog(s), r, mode, DemoFlowId, FALSE)

\* a fallback that animates the 15-step list (what C7 rules out)
C7_FifteenStepFallback(s, r, mode) ==
    StartLoop("enhanced", clearEventLog(s), r, mode, DemoFlowId, FALSE)

\* enhanced showDemoAnimationWithScenario, up to its first await on a timer
showDemoAnimationWithScenario(s, r, mode) ==
    StartLoop("enhanced",
              clearEventLog(displayScenarioInfo([s EXCEPT !.currentScenario = "mock"])),
              r, mode, MockFlowId, FALSE)

(***************************************************************************)
(* Initial state: the page after DOMContentLoaded.                         *)
(***************************************************************************)
Init ==
    /\ variant \in Variants
    /\ profile \in Profiles
    /\ isSimulating = FALSE
    /\ btnDisabled = FALSE
    /\ currentScenario = "null"
    /\ eventCount = 0
    /\ metricEvents = 0
    /\ log = <<Placeholder>>
    /\ classes = [n \in Registry(variant) |-> {}]
    /\ timers = <<>>
    /\ clearsInFlight = 0
    /\ animationPaused = FALSE
    /\ runs = [r \in RunIds |-> IdleRun]
    /\ seq = 0
    /\ clicks = [busy |-> 0, clears |-> 0, faults |-> 0, pauses |-> 0]
    /\ lastClear = "none"
    /\ ctl = NoController

Fixed == UNCHANGED <<variant, profile, ctl>>

Count(what) == clicks' = [clicks EXCEPT ![what] = @ + 1]

\* the run records after run r moved to record rr
SetRun(r, rr) == runs' = [runs EXCEPT ![r] = rr]

\* the state record and run r as the pair p gives them
Continue(r, p) == \E q \in {p} : Assign(q.s) /\ SetRun(r, q.r)

\* the step lists the backend sends in this behaviour
ServerFlows == IF profile = "long" THEN LongFlowIds ELSE FlowIds

\* failing fetches and responses without steps are explored for a single run
FaultBudget == IF profile = "concurrent" THEN 0 ELSE MaxFaults

ClearBudget == IF profile = "concurrent" THEN MaxClears ELSE MaxClearsLong

\* the invocation slot a new run takes
FreeRun(r) ==
    /\ runs[r].pc = "idle"
    /\ \A q \in RunIds : q < r => runs[q].pc # "idle"
    /\ profile # "concurrent" => r = 1

\* run r passes the gate and goes on to position pc; `alone` records whether
\* every earlier invocation had returned by then
Enter(r, pc) ==
    [runs[r] EXCEPT !.pc = pc,
                    !.alone = \A q \in RunIds \ {r} : runs[q].pc \in {"idle", "done"}]

\* a gate that lets every call through (what C3 rules out)
C3_RejectsNever(flag) == FALSE

\* if (this.isSimulating) { showToast(...); return; }
Rejects(flag) == flag

(***************************************************************************)
(* simulateRandomScenario() / simulateScenario(id): the click on the       *)
(* simulate button (which the run disables), or a call that does not go    *)
(* through that button (demo4: the crisis and random buttons; demo5: the   *)
(* method of window.visualizer).                                           *)
(***************************************************************************)
Simulate(viaButton) ==
    /\ viaButton => ~btnDisabled
    /\ isSimulating => clicks.busy < MaxBusyCalls
    /\ clicks' = [clicks EXCEPT !.busy = IF isSimulating THEN @ + 1 ELSE @]
    /\ lastClear' = "none"
    /\ Fixed
    /\ UNCHANGED <<clearsInFlight, animationPaused>>
    /\ IF Rejects(isSimulating)
       THEN UNCHANGED <<isSimulating, btnDisabled, currentScenario, eventCount,
                        metricEvents, log, classes, timers, runs, seq>>
       ELSE \E r \in RunIds :
              /\ FreeRun(r)
              /\ CASE variant = "enhanced" ->
                        \* await this.clear()
                        Continue(r, Pair(Cur, Enter(r, "clearFetch")))
                   [] variant = "basic" ->
                        Continue(r, Pair([Cur EXCEPT !.isSimulating = TRUE, !.btnDisabled = TRUE],
                                         Toast(Enter(r, "fetch"), "info:picking")))
                   [] variant = "demo4" ->
                        Continue(r, Pair([clearDemo4(Cur) EXCEPT !.isSimulating = TRUE,
                                                                 !.btnDisabled = TRUE],
                                         Enter(r, "fetch")))

(***************************************************************************)
(* enhanced: the fetch of clear() awaited by simulateRandomScenario has    *)
(* completed; the run sets the flag and starts the scenario fetch.         *)
(***************************************************************************)
RunClearDone(r, ok) ==
    /\ variant = "enhanced"
    /\ runs[r].pc = "clearFetch"
    /\ ~ok => clicks.faults < FaultBudget
    /\ clicks' = [clicks EXCEPT !.faults = IF ok THEN @ ELSE @ + 1]
    /\ LET cleared == IF ok THEN clearEnhanced(Cur) ELSE Cur
           rr      == IF ok THEN runs[r] ELSE Toast(runs[r], "error:clear")
       IN  Continue(r, Pair(startImmediateAnimation(
                               [cleared EXCEPT !.isSimulating = TRUE, !.btnDisabled = TRUE]),
                            [rr EXCEPT !.pc = "fetch"]))
    /\ lastClear' = "none"
    /\ Fixed
    /\ UNCHANGED <<clearsInFlight, animationPaused>>

(***************************************************************************)
(* The scenario fetch has completed.                                       *)
(***************************************************************************)
\* the responses that are not the ordinary success of the variant
FaultKinds(v) ==
    IF v = "enhanced"
    THEN {"badflow", "workflow", "noflow", "unsuccessful", "reject"}
    ELSE {"unsuccessful", "reject"}

\* enhanced simulateRandomScenario after its fetch
AfterFetchEnhanced(s, r, kind, flow) ==
    CASE kind = "flow" ->
            StartLoop("enhanced", clearEventLog([s EXCEPT !.currentScenario = "server"]),
                      r, "flow", flow, FALSE)
      [] kind = "badflow" ->
            showDemoAnimation([s EXCEPT !.currentScenario = "server"], r, "badflow")
      [] kind = "workflow" ->
            Pair([s EXCEPT !.currentScenario = "server"], [r EXCEPT !.pc = "eventsFetch"])
      [] kind = "noflow" ->
            showDemoAnimationWithScenario(s, r, "noflow")
      [] kind = "unsuccessful" ->
            showDemoAnimationWithScenario(s, Toast(r, "warning:fallback"), "unsuccessful")
      [] kind = "reject" ->
            showDemoAnimationWithScenario(s, Toast(r, "warning:fallback"), "reject")

\* basic simulateRandomScenario after its fetch
AfterFetchBasic(s, r, kind) ==
    CASE kind = "workflow" ->
            Pair([s EXCEPT !.currentScenario = "server"],
                 Toast([r EXCEPT !.pc = "eventsFetch"], "success:picked"))
      [] kind \in {"unsuccessful", "reject"} ->
            Finally(s, Toast([r EXCEPT !.mode = kind], "error:simulation"))

\* a failed fetch that ends the run without telling the user
C12_SilentFailure(s, r, kind, flow, paused) ==
    CASE kind = "flow" ->
            StartLoop("demo4",
                      [clearEventLogDemo4([s EXCEPT !.currentScenario = "server"])
                          EXCEPT !.metricEvents = flow.len],
                      Toast(r, "success:cleared"), "flow", flow, paused)
      [] kind \in {"unsuccessful", "reject"} ->
            Finally(s, [r EXCEPT !.mode = kind])

\* demo4 simulateScenario after its fetch; animateFlowSteps begins with
\* clearEventLog(), eventCount = 0 and stats.activeEvents = flowSteps.length
AfterFetchDemo4(s, r, kind, flow, paused) ==
    CASE kind = "flow" ->
            StartLoop("demo4",
                      [clearEventLogDemo4([s EXCEPT !.currentScenario = "server"])
                          EXCEPT !.metricEvents = flow.len],
                      Toast(r, "success:cleared"), "flow", flow, paused)
      [] kind \in {"unsuccessful", "reject"} ->
            Finally(s, Toast([r EXCEPT !.mode = kind], "error:simulation"))

FetchDone(r) ==
    /\ runs[r].pc = "fetch"
    /\ \E kind \in {"flow", "workflow"} \cup FaultKinds(variant) :
       \E flow \in ServerFlows :
          /\ kind = "flow" => variant \in {"enhanced", "demo4"}
          /\ kind = "workflow" => variant \in {"enhanced", "basic"}
          /\ kind # "flow" => flow = CHOOSE f \in ServerFlows : TRUE
          /\ kind \in FaultKinds(variant) => clicks.faults < FaultBudget
          /\ clicks' = [clicks EXCEPT !.faults = IF kind \in FaultKinds(variant) THEN @ + 1 ELSE @]
          /\ Continue(r, CASE variant = "enhanced" -> AfterFetchEnhanced(Cur, runs[r], kind, flow)
                           [] variant = "basic"    -> AfterFetchBasic(Cur, runs[r], kind)
                           [] variant = "demo4"    ->
                                AfterFetchDemo4(Cur, runs[r], kind, flow, animationPaused))
    /\ lastClear' = "none"
    /\ Fixed
    /\ UNCHANGED <<clearsInFlight, animationPaused>>

(***************************************************************************)
(* animateScenario(workflowId): its fetch of the recent events completed.  *)
(***************************************************************************)
\* clearEventLog(); this.eventCount = 0; metricEvents '0'; then the loop
AnimateEvents(v, s, r, flow) ==
    StartLoop(v, [clearEventLog(s) EXCEPT !.eventCount = 0, !.metricEvents = 0],
              r, "events", flow, FALSE)

AfterEventsFetch(v, s, r, kind, flow) ==
    CASE kind = "events" -> AnimateEvents(v, s, r, flow)
      [] kind = "empty" /\ v = "enhanced" ->
            showDemoAnimation(s, Toast(r, "info:noevents"), "eventsEmpty")
      [] kind = "empty" /\ v = "basic" ->
            Finally(displayScenarioResult(s), Toast(r, "info:noevents"))
      [] kind = "reject" ->
            Finally(displayScenarioResult(s), Toast(r, "error:animation"))

EventsFetchDone(r) ==
    /\ runs[r].pc = "eventsFetch"
    /\ \E kind \in {"events", "empty", "reject"} :
       \E flow \in ServerFlows :
          /\ kind # "events" => flow = CHOOSE f \in ServerFlows : TRUE
          /\ kind = "events" => flow.len > 0
          /\ (kind # "events" /\ variant = "basic") => clicks.faults < FaultBudget
          /\ clicks' = [clicks EXCEPT !.faults =
                           IF kind # "events" /\ variant = "basic" THEN @ + 1 ELSE @]
          /\ Continue(r, AfterEventsFetch(variant, Cur, runs[r], kind, flow))
    /\ lastClear' = "none"
    /\ Fixed
    /\ UNCHANGED <<clearsInFlight, animationPaused>>

(***************************************************************************)
(* The timers a run awaits.                                                *)
(***************************************************************************)
\* animateParticle's timeout: the step goes on with its target
ParticleDone(r) ==
    /\ runs[r].pc = "particle"
    /\ Continue(r, AfterParticle(variant, Cur, runs[r]))
    /\ lastClear' = "none"
    /\ Fixed
    /\ UNCHANGED <<clearsInFlight, animationPaused, clicks>>

\* sleep(delay) after a step: the loop goes to the next step
SleepDone(r) ==
    /\ runs[r].pc = "sleep"
    /\ Continue(r, LoopHead(variant, Cur, [runs[r] EXCEPT !.i = @ + 1], animationPaused))
    /\ lastClear' = "none"
    /\ Fixed
    /\ UNCHANGED <<clearsInFlight, animationPaused, clicks>>

\* demo4 waitForResume: a sleep(100) of the polling loop ends and finds the
\* animation not paused
PollResume(r) ==
    /\ runs[r].pc = "waitResume"
    /\ ~animationPaused
    /\ Continue(r, EnterStep(variant, Cur, runs[r]))
    /\ lastClear' = "none"
    /\ Fixed
    /\ UNCHANGED <<clearsInFlight, animationPaused, clicks>>

(***************************************************************************)
(* setTimeout callbacks.                                                   *)
(***************************************************************************)
\* an earlier timeout a fires before a later timeout b whenever its delay is
\* not longer; a Math.random() delay can be arbitrarily short
Blocks(a, b) == ~b.rand /\ (a.rand \/ a.ms <= b.ms)

Fireable(k) == \A j \in 1..(k - 1) : ~Blocks(timers[j], timers[k])

\* the classes the "deactivate" timeout removes from the source
SourceOff(v) ==
    IF v = "enhanced" THEN {"active", "processing", "receiving"} ELSE {"active", "processing"}

\* ... and from the target
TargetOff(v) == IF v = "basic" THEN {"active"} ELSE {"active", "receiving"}

TimerEffect(v, cls, t) ==
    CASE t.kind = "deactivate" ->
            RemoveClasses(RemoveClasses(cls, t.src, SourceOff(v)), t.tgt, TargetOff(v))
      [] t.kind = "agent" -> AddClasses(cls, t.src, {"scenario-active"})
      [] t.kind = "cleanupAll" -> cleanupAllNodeStates([classes |-> cls]).classes

TimerFire(k) ==
    /\ k \in 1..Len(timers)
    /\ Fireable(k)
    /\ classes' = TimerEffect(variant, classes, timers[k])
    /\ timers' = SubSeq(timers, 1, k - 1) \o SubSeq(timers, k + 1, Len(timers))
    /\ lastClear' = "none"
    /\ Fixed
    /\ UNCHANGED <<isSimulating, btnDisabled, currentScenario, eventCount, metricEvents,
                   log, clearsInFlight, animationPaused, runs, seq, clicks>>

(***************************************************************************)
(* The Clear button, and demo4's Clear Log, Pause and Resume buttons.      *)
(***************************************************************************)
\* what the completion of a clear() leaves in lastClear
NextClear(ok) ==
    IF ~ok THEN "failed"
    ELSE IF lastClear \in {"once", "again"} THEN "again" ELSE "once"

\* click on Clear: demo5 starts the fetch of clear(); demo4 clears at once
ClearClick ==
    /\ clicks.clears < ClearBudget
    /\ Count("clears")
    /\ Fixed
    /\ UNCHANGED <<animationPaused, runs>>
    /\ IF variant = "demo4"
       THEN /\ Assign(clearDemo4(Cur))
            /\ lastClear' = NextClear(TRUE)
            /\ UNCHANGED clearsInFlight
       ELSE /\ clearsInFlight' = clearsInFlight + 1
            /\ UNCHANGED <<isSimulating, btnDisabled, currentScenario, eventCount,
                           metricEvents, log, classes, timers, seq, lastClear>>

\* demo5: the fetch of a clear() started by the Clear button completed
ClearDone(ok) ==
    /\ clearsInFlight > 0
    /\ ~ok => clicks.faults < FaultBudget
    /\ clicks' = [clicks EXCEPT !.faults = IF ok THEN @ ELSE @ + 1]
    /\ clearsInFlight' = clearsInFlight - 1
    /\ Assign(IF ok THEN clear(variant, Cur) ELSE Cur)
    /\ lastClear' = NextClear(ok)
    /\ Fixed
    /\ UNCHANGED <<animationPaused, runs>>

\* demo4: click on Clear Log
ClearLogClick ==
    /\ variant = "demo4"
    /\ clicks.clears < ClearBudget
    /\ Count("clears")
    /\ Assign(clearEventLogDemo4(Cur))
    /\ lastClear' = "none"
    /\ Fixed
    /\ UNCHANGED <<clearsInFlight, animationPaused, runs>>

\* demo4 pauseAnimation()
Pause ==
    /\ variant = "demo4"
    /\ ~animationPaused
    /\ clicks.pauses < MaxPauses
    /\ Count("pauses")
    /\ animationPaused' = TRUE
    /\ lastClear' = "none"
    /\ Fixed
    /\ UNCHANGED <<isSimulating, btnDisabled, currentScenario, eventCount, metricEvents,
                   log, classes, timers, clearsInFlight, runs, seq>>

\* demo4 resumeAnimation()
Resume ==
    /\ variant = "demo4"
    /\ animationPaused
    /\ animationPaused' = FALSE
    /\ lastClear' = "none"
    /\ Fixed
    /\ UNCHANGED <<isSimulating, btnDisabled, currentScenario, eventCount, metricEvents,
                   log, classes, timers, clearsInFlight, runs, seq, clicks>>

Next ==
    \/ \E b \in BOOLEAN : Simulate(b)
    \/ \E r \in RunIds, ok \in BOOLEAN : RunClearDone(r, ok)
    \/ \E r \in RunIds : FetchDone(r)
    \/ \E r \in RunIds : EventsFetchDone(r)
    \/ \E r \in RunIds : ParticleDone(r)
    \/ \E r \in RunIds : SleepDone(r)
    \/ \E r \in RunIds : PollResume(r)
    \/ \E k \in 1..MaxTimers : TimerFire(k)
    \/ ClearClick
    \/ \E ok \in BOOLEAN : ClearDone(ok)
    \/ ClearLogClick
    \/ Pause
    \/ Resume

Spec == Init /\ [][Next]_vars

(***************************************************************************)
(* The browser runs every callback that is due: completions of fetches,    *)
(* timeouts of particles and sleeps, the polling of waitForResume, and     *)
(* setTimeout callbacks.  Clicks are up to the user and get no fairness.   *)
(***************************************************************************)
Fairness ==
    /\ \A r \in RunIds : WF_vars(\E ok \in BOOLEAN : RunClearDone(r, ok))
    /\ \A r \in RunIds : WF_vars(FetchDone(r))
    /\ \A r \in RunIds : WF_vars(EventsFetchDone(r))
    /\ \A r \in RunIds : WF_vars(ParticleDone(r))
    /\ \A r \in RunIds : WF_vars(SleepDone(r))
    /\ \A r \in RunIds : WF_vars(PollResume(r))
    /\ WF_vars(\E k \in 1..MaxTimers : TimerFire(k))
    /\ WF_vars(\E ok \in BOOLEAN : ClearDone(ok))

FairInit == Init /\ profile = "faulty"

FairSpec == FairInit /\ [][Next]_vars /\ Fairness

(***************************************************************************)
(* Properties.                                                             *)
(***************************************************************************)
\* run r is inside its step loop
InLoop(r) == runs[r].pc \in {"particle", "sleep", "waitResume"}

\* run r is inside a step: its animation or the delay after it is pending
InStep(r) == runs[r].pc \in {"particle", "sleep"}

\* run r has passed the gate and not reached its finally block
Started(r) == runs[r].pc \notin {"idle", "done"}

\* C1: at any time at most one run of the sequencer is inside its step loop.
C1_AtMostOneRunActive ==
    \A r, q \in RunIds : (InLoop(r) /\ InLoop(q)) => r = q

\* C2: in every reachable state the event log holds at most 50 entries.
C2_LogAtMostFifty == Len(log) <= LogCap

\* what the claim of C3 says a rejected call leaves alone
C3_Untouched == <<log, eventCount, metricEvents, classes, isSimulating, runs, timers>>

\* C3: a run() call made while isSimulating is true starts no step loop and
\* changes neither the log, the counters, the highlight classes nor the flag.
C3_BusyCallIsNoOp ==
    [][clicks'.busy > clicks.busy => UNCHANGED C3_Untouched]_vars

\* a call was made while a run was inside its step loop, and was rejected
C3_Witness ==
    /\ clicks.busy > 0
    /\ isSimulating
    /\ \E r \in RunIds : InStep(r) /\ runs[r].appends > 0

\* C4: a run over a step list of length N has made exactly N log-append
\* operations when it ends.
C4_ExactlyNAppends ==
    \A r \in RunIds : runs[r].pc = "done" => runs[r].appends = runs[r].flow.len

\* the state clear() is said to leave
Cleared ==
    /\ eventCount = 0
    /\ log = <<Placeholder>>
    /\ \A n \in DOMAIN classes : classes[n] \cap {"active", "scenario-active"} = {}

\* C5: when clear() returns, the event count is 0, the log shows only the
\* placeholder and no node carries "active" or "scenario-active".
C5_ClearResets == lastClear # "none" => Cleared

\* what the page shows and the sequencer holds
Display == <<isSimulating, btnDisabled, currentScenario, eventCount, metricEvents,
             log, classes, animationPaused>>

\* C6: a clear() that returns directly after another clear() returned leaves
\* the sequencer and its display as the first one left them.
C6_ClearIdempotent == [][lastClear' = "again" => Display' = Display]_vars

\* two clear() calls have returned in a row
C6_Witness == lastClear = "again" /\ Cleared

Ended(r) == runs[r].pc = "done" /\ ~isSimulating

\* C8 as stated: every run that is started eventually ends with isSimulating
\* reset to false.
C8_EveryRunEnds == \A r \in RunIds : Started(r) ~> Ended(r)

\* C8: every run that is started eventually ends with isSimulating reset to
\* false, provided the animation is not left paused for ever.
C8_RunEndsUnlessPaused ==
    \A r \in RunIds : (<>[](~animationPaused)) => (Started(r) ~> Ended(r))

\* a run that was paused, met a failed lookup or a failed fetch, has ended
C8_Witness ==
    \E r \in RunIds :
        /\ Ended(r)
        /\ \/ clicks.pauses > 0 /\ runs[r].appends > 0
           \/ runs[r].mode \in {"reject", "unsuccessful"}

\* the classes a step adds to its source and its target
StepHighlights == {"active", "processing", "receiving", "scenario-active"}

\* nothing is pending: no run in progress, no timeout, no clear() in flight
Quiescent ==
    /\ \A r \in RunIds : ~Started(r)
    /\ timers = <<>>
    /\ clearsInFlight = 0

\* C9: once every timeout has fired, no node carries a highlight class that
\* a step added.
C9_HighlightsRemoved ==
    Quiescent => \A n \in DOMAIN classes : classes[n] \cap StepHighlights = {}

\* run r begins a step in this transition
BeginsStep(r) ==
    /\ runs'[r].pc \in {"particle", "sleep"}
    /\ runs[r].pc \notin {"particle", "sleep"} \/ runs'[r].i # runs[r].i

\* C10: a step begins only when no other step's animation or delay is pending.
C10_NoStepOverlap ==
    [][\A r \in RunIds : BeginsStep(r) => \A q \in RunIds \ {r} : ~InStep(q)]_vars


\* run r has left its step loop by the end of its list, not by an exception
Completed(r) == runs[r].pc = "done" /\ ~runs[r].aborted

\* C11: every run that is started eventually processes the last step of its
\* list (stated with the animation not left paused for ever, which is the
\* most the step loop can promise).
C11_RunCompletesAllSteps ==
    \A r \in RunIds : (<>[](~animationPaused)) => (Started(r) ~> Completed(r))

\* the ways the fetch of the step list fails: the promise rejects, or the
\* answer carries success: false
FailureModes == {"reject", "unsuccessful"}

FailureToasts == {"warning:fallback", "error:simulation"}

CompletesNow(r) ==
    /\ runs[r].pc # "done"
    /\ runs'[r].pc = "done"
    /\ ~runs'[r].aborted
    /\ runs'[r].flow.len > 0

\* no other run has been started and the Clear buttons were not used
Undisturbed(r) ==
    /\ clicks.clears = 0
    /\ \A q \in RunIds \ {r} : runs[q].pc = "idle"

\* C13: when a run completes a list of N steps, the event count and the
\* metricEvents display equal N (stated for a run that no other run and no
\* Clear button disturbed).
C13_CountersEqualSteps ==
    [][\A r \in RunIds :
          (CompletesNow(r) /\ Undisturbed(r))
              => /\ eventCount' = runs'[r].flow.len
                 /\ metricEvents' = runs'[r].flow.len]_vars

\* the number of entries of kind k in the log l
RECURSIVE CountKind(_, _)
CountKind(l, k) ==
    IF l = <<>> THEN 0
    ELSE (IF Head(l).kind = k THEN 1 ELSE 0) + CountKind(Tail(l), k)

\* C14: after a run over the step list [{from: "UI", to: "Orchestrator",
\* delay: 100}] has ended, the log holds exactly one event entry and the
\* metricEvents display is 1 (stated for a run that no other run and no Clear
\* button disturbed).
C14_ExampleRunLogsOne ==
    \A r \in RunIds :
        (/\ runs[r].pc = "done"
         /\ runs[r].mode = "flow"
         /\ runs[r].flow = ExampleFlowId
         /\ Undisturbed(r))
            => /\ CountKind(log, "event") = 1
               /\ metricEvents = 1

\* C15: every run that has processed the steps of its list to the end has
\* shown a completion notification.
C15_CompletionNotified ==
    \A r \in RunIds :
        (Completed(r) /\ runs[r].flow.len > 0 /\ runs[r].appends = runs[r].flow.len)
            => "success:completed" \in runs[r].toasts

\* what the steps of run record rr have added to the event count so far
OwnCount(rr) ==
    rr.appends * (IF variant = "enhanced" /\ rr.mode = "events" THEN 2 ELSE 1)

\* run r did not overlap any other invocation: it passed the gate after the
\* earlier ones had returned, and none has been started since
Sequential(r) ==
    /\ runs[r].alone
    /\ \A q \in RunIds \ {r} :
           runs[q].pc = "idle" \/ (runs[q].pc = "done" /\ runs[q].alone)

\* run r begins the first step of its list in this transition
BeginsFirstStep(r) == BeginsStep(r) /\ runs'[r].i = 1

\* C16: at the moment a run begins its first step, the log, the counters and
\* the highlight classes hold nothing but what that step has put there
\* (stated for a run that does not overlap another run).
C16_RunStartsCleared ==
    [][\A r \in RunIds :
          (BeginsFirstStep(r) /\ Sequential(r)) =>
              /\ CountKind(log', "event") + CountKind(log', "result") <= runs'[r].appends
              /\ eventCount' = OwnCount(runs'[r])
              /\ metricEvents' = OwnCount(runs'[r])
              /\ \A n \in DOMAIN classes \ {runs'[r].src, runs'[r].tgt} :
                     classes'[n] \cap StepHighlights = {}]_vars

\* the state a pause is said not to tear down
Kept == <<log, eventCount, metricEvents, classes, isSimulating>>

\* run r waits in waitForResume before the step it has not processed yet
Stalled(r) == runs[r].pc = "waitResume"

\* C17: no step begins while the pause flag is set; setting and resetting the
\* flag changes neither the log, the counters, the highlights, isSimulating
\* nor any run; a run waiting for resume does nothing before the flag is
\* reset, and then goes on with the step it was waiting at, which is the
\* first one it has not processed.
C17_PauseStalls ==
    [][/\ \A r \in RunIds : BeginsStep(r) => ~animationPaused
       /\ animationPaused' # animationPaused => UNCHANGED <<Kept, runs>>
       /\ \A r \in RunIds :
             (Stalled(r) /\ runs'[r] # runs[r]) =>
                 /\ ~animationPaused
                 /\ runs[r].i = runs[r].appends + 1
                 /\ runs'[r].i = runs[r].i
                 /\ runs'[r].pc = "sleep" \/ runs'[r].aborted]_vars

\* a run that has processed a step waits for resume, its log entry, its
\* counter and the highlight of its source node still in place
C17_Witness ==
    \E r \in RunIds :
        /\ animationPaused
        /\ Stalled(r)
        /\ runs[r].appends > 0
        /\ CountKind(log, "event") = runs[r].appends
        /\ eventCount = runs[r].appends
        /\ "scenario-active" \in classes[runs[r].src]

\* run r enters the loop body for a step of its list in this transition
EntersStep(r) ==
    /\ runs[r].pc # "particle"
    /\ runs'[r] # runs[r]
    /\ runs'[r].pc \in {"particle", "sleep", "done"}
    /\ runs'[r].i \in 1..runs'[r].flow.len

\* the lookup of the source or of the target of the step run record rr is at
\* returned null
MissingNode(rr) == rr.src = NoNode \/ rr.tgt = NoNode

\* how much one step adds to the event count
StepWeight(rr) == IF variant = "enhanced" /\ rr.mode = "events" THEN 2 ELSE 1

\* C18: a step whose source or target node is missing is processed at once
\* and in full: the node that was found is highlighted, the log entry is
\* appended at the top, the counters go up, and the run is in the delay that
\* precedes the following step (a step of part_001 without description is set
\* aside: it throws whether or not its nodes are found).
C18_MissingNodeSoftFails ==
    [][\A r \in RunIds :
          (/\ EntersStep(r)
           /\ MissingNode(runs'[r])
           /\ ~Throws(variant, CurrentStep(runs'[r])))
              => /\ runs'[r].pc = "sleep"
                 /\ ~runs'[r].aborted
                 /\ runs'[r].appends = runs[r].appends + 1
                 /\ log' # <<>> /\ Head(log') = EventEntry(seq')
                 /\ eventCount' > 0 /\ metricEvents' = eventCount'
                 /\ runs[r].pc \in {"sleep", "waitResume"}
                        => eventCount' = eventCount + StepWeight(runs'[r])
                 /\ \A n \in {runs'[r].src, runs'[r].tgt} \ {NoNode} :
                        "active" \in classes'[n]]_vars

\* a run whose first step had no target node has gone on to its second step
\* and ended with both entries appended
C18_Witness ==
    \E r \in RunIds :
        /\ runs[r].pc = "done"
        /\ runs[r].flow = [kind |-> "server", off |-> 3, len |-> 2]
        /\ NodeOf[variant][StepsOf[runs[r].flow][1].to] = NoNode
        /\ runs[r].appends = 2

\* the answers of the backend that carry no usable flow array: flow is not
\* an array; no flow and no workflow_id; no flow and a workflow without events
NoFlowModes == {"badflow", "noflow", "eventsEmpty"}

\* the canned list the enhanced sequencer plays in mode m
CannedFlow(m) == IF m = "noflow" THEN MockFlowId ELSE DemoFlowId

IsEvent(e) == e.kind = "event"

\* the entries of the log l that steps appended, top first
Events(l) == SelectSeq(l, IsEvent)

\* C20: an append puts the new entry on top of the entries already in the
\* log (or of none, when the log is emptied in the same step) and, when that
\* makes more than 50, drops the oldest: the log holds the most recent
\* min(N, 50) entries, newest first.
C20_NewestFirstOldestEvicted ==
    [][seq' = seq + 1 =>
          LET new == <<EventEntry(seq')>>
          IN  Events(log') \in {new, LimitEntries(new \o Events(log))}]_vars

\* the ids getNodeElement of visualizer v asks the document for
Candidates(v, name) ==
    IF v = "enhanced"
    THEN {NodePrefix \o ReplaceAllSeparators(name), NodePrefix \o name}
    ELSE {NodePrefix \o ReplaceAllSeparators(name)}

\* run r has carried out the lookups of a step whose target is name
LookedUp(r, name) ==
    /\ runs[r].pc \in {"particle", "sleep"}
    /\ CurrentStep(runs[r]).to = name

\* C21: getNodeElement of a name none of whose candidate ids is in the
\* registry, "Unknown_System" among them, returns null; the step that made
\* the lookup goes on with a null target and the run is not thrown out of its
\* loop.
C21_UnknownLookupIsNull ==
    /\ \A v \in {"enhanced", "basic"} :
          /\ NodeOf[v][N_Unknown_System] = NoNode
          /\ \A name \in SystemNames :
                Candidates(v, name) \cap Registry(v) = {} => NodeOf[v][name] = NoNode
    /\ \A r \in RunIds :
          (variant \in {"enhanced", "basic"} /\ LookedUp(r, N_Unknown_System))
              => runs[r].tgt = NoNode /\ ~runs[r].aborted

\* a step with the target "Unknown_System" has made its lookups and is in its
\* delay
C21_Witness ==
    \E r \in RunIds :
        /\ variant \in {"enhanced", "basic"}
        /\ LookedUp(r, N_Unknown_System)
        /\ runs[r].pc = "sleep"
        /\ runs[r].tgt = NoNode
        /\ runs[r].src = Id_node_UI

\* run r is in a step and holds the elements its two lookups returned
HoldsNodes(r) == runs[r].pc \in {"particle", "sleep"}

C23_FlagSetDuringLoop == \A r \in RunIds : InLoop(r) => isSimulating

\* a run passes the gate in this transition
RunStartsNow == \E r \in RunIds : runs[r].pc = "idle" /\ runs'[r].pc # "idle"

\* C24: in the step that follows a completed clear(), unless that step
\* starts a new run, no log entry is appended, the event count stays 0 and no
\* class is added to any node.
C24_ClearedStateStable ==
    [][(lastClear \in {"once", "again"} /\ ~RunStartsNow) =>
          /\ seq' = seq
          /\ eventCount' = 0
          /\ \A n \in DOMAIN classes : classes'[n] \subseteq classes[n]]_vars

(***************************************************************************)
(* The scenario controllers of demo4.  Each is a page of its own with its  *)
(* own specification; the fields of the controller are the record ctl, and *)
(* the event-flow visualizer of the other pages stays as it is loaded.     *)
(***************************************************************************)
Still ==
    UNCHANGED << variant, profile, isSimulating, btnDisabled, currentScenario,
                 eventCount, metricEvents, log, classes, timers, clearsInFlight,
                 animationPaused, runs, seq, clicks, lastClear >>

\* a page whose controller was constructed with the fields c
ControllerInit(c) ==
    /\ variant = "demo4"
    /\ profile = "concurrent"
    /\ isSimulating = FALSE
    /\ btnDisabled = FALSE
    /\ currentScenario = "null"
    /\ eventCount = 0
    /\ metricEvents = 0
    /\ log = <<Placeholder>>
    /\ classes = [n \in Registry(variant) |-> {}]
    /\ timers = <<>>
    /\ clearsInFlight = 0
    /\ animationPaused = FALSE
    /\ runs = [r \in RunIds |-> IdleRun]
    /\ seq = 0
    /\ clicks = [busy |-> 0, clears |-> 0, faults |-> 0, pauses |-> 0]
    /\ lastClear = "none"
    /\ ctl = c

(***************************************************************************)
(* Scenario7Controller: the pricing analysis and its event stream.         *)
(*                                                                         *)
(* startEventStream sets one timeout per entry of its events array; the    *)
(* delays grow along the array, so the timeouts of one call fire in the    *)
(* order of the array.  A stream is therefore the index of its next entry. *)
(* The timeouts of two calls fire in the order of their due times, which   *)
(* depends on when the calls were made; the model leaves that open.        *)
(***************************************************************************)
\* how often the user activates the analysis
MaxActivations == 2

\* length of the events array of startEventStream
PricingEvents == 12

Activations == 1..MaxActivations

NoStream == [next |-> PricingEvents, completion |-> "none"]

Scenario7 ==
    [ page |-> "scenario7",
      analysisActive |-> FALSE,
      currentCorrelationId |-> 0,            \* 0: null
      eventStreamInterval |-> 0,             \* 0: null
      activations |-> 0,                     \* calls that passed the gate
      requests |-> {},                       \* run-pricing-analysis fetches in flight
      streams |-> [a \in Activations |-> NoStream],
      eventStream |-> {},                    \* children of #eventStream, order left out
      analysisComplete |-> 0 ]               \* calls of showAnalysisComplete

\* startEventStream (312-367) of the activation a: the element is emptied and
\* the twelve timeouts are set
startEventStream(c, a) ==
    [c EXCEPT !.eventStream = {},
              !.streams[a] = [next |-> 0, completion |-> "none"]]

PricingInit == ControllerInit(Scenario7)

\* click on btnActivateAnalysis: up to the fetch
startPricingAnalysis ==
    /\ ctl.activations < MaxActivations
    /\ IF ctl.analysisActive
       THEN UNCHANGED ctl
       ELSE ctl' = [ctl EXCEPT !.analysisActive = TRUE,
                               !.activations = @ + 1,
                               !.requests = @ \cup {ctl.activations + 1}]
    /\ Still

\* the response of run-pricing-analysis arrives, or the fetch fails
startPricingAnalysisDone(a, ok) ==
    /\ a \in ctl.requests
    /\ ctl' = IF ok
              THEN startEventStream([ctl EXCEPT !.requests = @ \ {a},
                                                !.currentCorrelationId = a], a)
              ELSE [ctl EXCEPT !.requests = @ \ {a}]
    /\ Still

\* the next timeout of the stream of activation a fires: addEvent, and after
\* the last entry the timeout of showAnalysisComplete is set
StreamTimeout(a) ==
    /\ ctl.streams[a].next < PricingEvents
    /\ ctl' = [ctl EXCEPT
                 !.eventStream = @ \cup {[stream |-> a, index |-> ctl.streams[a].next]},
                 !.streams[a] =
                     [next |-> @.next + 1,
                      completion |-> IF @.next = PricingEvents - 1
                                     THEN "pending" ELSE "none"]]
    /\ Still

\* the timeout set after the last entry fires
showAnalysisComplete(a) ==
    /\ ctl.streams[a].completion = "pending"
    /\ ctl' = [ctl EXCEPT !.streams[a].completion = "done",
                          !.analysisComplete = @ + 1]
    /\ Still

\* click on btnCloseCanvas: eventStreamInterval is never assigned, so no
\* timer is cleared
closeAgenticCanvas ==
    /\ ctl' = [ctl EXCEPT !.analysisActive = FALSE]
    /\ Still

PricingNext ==
    \/ startPricingAnalysis
    \/ \E a \in Activations, ok \in BOOLEAN : startPricingAnalysisDone(a, ok)
    \/ \E a \in Activations : StreamTimeout(a)
    \/ \E a \in Activations : showAnalysisComplete(a)
    \/ closeAgenticCanvas

PricingSpec == PricingInit /\ [][PricingNext]_vars

\* C25: every entry of the event stream was scheduled by the latest
\* startEventStream, the one of the current activation: no timeout of an
\* earlier activation adds to the stream of a later one.
C25_OneStreamAtATime ==
    \A e \in ctl.eventStream : e.stream = ctl.currentCorrelationId

(***************************************************************************)
(* Scenario 1 (part_004, scenario1.js): the investigation and its event    *)
(* flow.  eventFlowInterval and currentEventIndex are globals of the page; *)
(* the event-flow panel stays open while the stream is observed.           *)
(***************************************************************************)
\* how often the user starts the investigation
MaxInvestigations == 3

\* how many completion sections the stream is followed for
MaxCompletions == 2

\* eventTimeline.length
TimelineEvents == 15

\* the children of #eventStream are the indices of the timeline events added;
\* the section that showEventFlowCompletion appends is written as the index
\* past the last event
CompletionSection == TimelineEvents

Scenario1 ==
    [ page |-> "scenario1",
      investigations |-> 0,     \* calls of startInvestigation
      loading |-> 0,            \* timeouts of startInvestigation not yet fired
      started |-> 0,            \* calls of setInterval so far: the ids handed out
      intervals |-> {},         \* ids of the intervals that are running
      eventFlowInterval |-> 0,  \* 0: undefined
      currentEventIndex |-> 0,
      eventStream |-> <<>> ]

InvestigationInit == ControllerInit(Scenario1)

\* click on "Investigate": the loading overlay and a timeout of 2 s
startInvestigation ==
    /\ ctl.investigations < MaxInvestigations
    /\ ctl' = [ctl EXCEPT !.investigations = @ + 1, !.loading = @ + 1]
    /\ Still

\* the timeout of startInvestigation fires: showEventFlowModal moves the panel
\* into a new overlay, and startEventStream empties the stream, resets the
\* index and sets a new interval, whose id replaces the one held
startInvestigationTimeout ==
    /\ ctl.loading > 0
    /\ ctl' = [ctl EXCEPT !.loading = @ - 1,
                          !.started = @ + 1,
                          !.intervals = @ \cup {ctl.started + 1},
                          !.eventFlowInterval = ctl.started + 1,
                          !.currentEventIndex = 0,
                          !.eventStream = <<>>]
    /\ Still

\* the callback of interval id runs: the next event is added, or the interval
\* whose id eventFlowInterval holds is cleared and the completion is shown
eventFlowTick(id) ==
    /\ id \in ctl.intervals
    /\ IF ctl.currentEventIndex < TimelineEvents
       THEN ctl' = [ctl EXCEPT !.eventStream = Append(@, ctl.currentEventIndex),
                               !.currentEventIndex = @ + 1]
       ELSE /\ Len(ctl.eventStream) < TimelineEvents + MaxCompletions
            /\ ctl' = [ctl EXCEPT !.intervals = @ \ {ctl.eventFlowInterval},
                                  !.eventStream = Append(@, CompletionSection)]
    /\ Still

InvestigationNext ==
    \/ startInvestigation
    \/ startInvestigationTimeout
    \/ \E id \in 1..MaxInvestigations : eventFlowTick(id)

InvestigationSpec == InvestigationInit /\ [][InvestigationNext]_vars

\* timeouts and intervals that are due run; the clicks are up to the user
InvestigationFairSpec ==
    /\ InvestigationSpec
    /\ WF_vars(startInvestigationTimeout)
    /\ \A id \in 1..MaxInvestigations : WF_vars(eventFlowTick(id))

\* the stream after a complete run: the fifteen events in order and one
\* completion section
FullStream ==
    [k \in 1..(TimelineEvents + 1) |-> k - 1]

MaxSprints == 2

\* how many polls the intervals send altogether
MaxPolls == 3

\* length of the list of events of a sprint
MaxSprintEvents == 2

Sprints == 1..MaxSprints

PollAnswers == {"error", "noEvents", "running", "complete"}

Scenario6 ==
    [ page |-> "scenario6",
      currentPhase |-> "alert",
      currentSprintId |-> 0,          \* 0: null
      eventStreamInterval |-> 0,      \* 0: null
      sprints |-> 0,                  \* calls of activateMaSprint
      requests |-> {},                \* run-ma-sprint fetches in flight
      intervals |-> {},               \* the intervals that are running
      eventIndex |-> [s \in Sprints |-> 0],   \* eventIndex of each startEventStream call
      polls |-> [s \in Sprints |-> 0],        \* sprint-events fetches in flight, per interval
      polled |-> 0,                   \* polls sent so far
      maEventStream |-> 0,            \* number of children of #maEventStream
      updates |-> 0,                  \* calls of updateEventStream
      sprintComplete |-> 0,           \* calls of showSprintComplete
      stopped |-> FALSE ]             \* the stream was stopped and none started since

SprintInit == ControllerInit(Scenario6)

\* clearInterval(this.eventStreamInterval)
ClearHeldInterval(c) ==
    [c EXCEPT !.intervals = @ \ {c.eventStreamInterval}, !.stopped = TRUE]

\* click on btnActivateSprint: up to the fetch
activateMaSprint ==
    /\ ctl.sprints < MaxSprints
    /\ ctl' = [ctl EXCEPT !.currentPhase = "sprint",
                          !.sprints = @ + 1,
                          !.requests = @ \cup {ctl.sprints + 1}]
    /\ Still

\* the answer of run-ma-sprint: on success the id is kept and startEventStream
\* sets the interval
activateMaSprintDone(s, ok) ==
    /\ s \in ctl.requests
    /\ ctl' = IF ok
              THEN [ctl EXCEPT !.requests = @ \ {s},
                               !.currentSprintId = s,
                               !.eventStreamInterval = s,
                               !.intervals = @ \cup {s},
                               !.eventIndex[s] = 0,
                               !.stopped = FALSE]
              ELSE [ctl EXCEPT !.requests = @ \ {s}]
    /\ Still

\* the callback of interval s runs up to its fetch
sprintPoll(s) ==
    /\ s \in ctl.intervals
    /\ ctl.polled < MaxPolls
    /\ ctl' = [ctl EXCEPT !.polls[s] = @ + 1, !.polled = @ + 1]
    /\ Still

Min(a, b) == IF a < b THEN a ELSE b

\* the rest of the callback when its fetch has been answered
AfterPoll(c, s, answer) ==
    IF answer = "error" THEN ClearHeldInterval(c)
    ELSE IF answer = "noEvents" THEN c
    ELSE LET shown == [c EXCEPT !.maEventStream = Min(c.eventIndex[s] + 1, MaxSprintEvents),
                                !.updates = @ + 1,
                                !.eventIndex[s] = @ + 1]
         IN  IF answer = "complete" /\ shown.eventIndex[s] >= MaxSprintEvents
             THEN [ClearHeldInterval(shown) EXCEPT !.sprintComplete = @ + 1]
             ELSE shown

sprintPollDone(s, answer) ==
    /\ ctl.polls[s] > 0
    /\ ctl' = AfterPoll([ctl EXCEPT !.polls[s] = @ - 1], s, answer)
    /\ Still

\* click on the close button of the sprint
closeSprint ==
    /\ ctl' = IF ctl.eventStreamInterval # 0
              THEN [ClearHeldInterval(ctl) EXCEPT !.currentPhase = "alert",
                                                  !.eventStreamInterval = 0]
              ELSE [ctl EXCEPT !.currentPhase = "alert", !.stopped = TRUE]
    /\ Still

SprintNext ==
    \/ activateMaSprint
    \/ \E s \in Sprints, ok \in BOOLEAN : activateMaSprintDone(s, ok)
    \/ \E s \in Sprints : sprintPoll(s)
    \/ \E s \in Sprints, answer \in PollAnswers : sprintPollDone(s, answer)
    \/ closeSprint

SprintSpec == SprintInit /\ [][SprintNext]_vars

\* C27: while the event stream is stopped, no step updates the event stream
\* or calls showSprintComplete.
C27_StoppedStreamIsSilent ==
    [][(ctl.stopped /\ ctl'.stopped) =>
          /\ ctl'.updates = ctl.updates
          /\ ctl'.sprintComplete = ctl.sprintComplete]_vars

(***************************************************************************)
(* Scenario4Controller: the play button and the simulated clock.           *)
(* currentTime is written in minutes since midnight of the simulated day.  *)
(* checkForEvents and the time display read currentTime and leave          *)
(* isPlaying and playInterval alone; they are not followed.                *)
(***************************************************************************)
\* the clock is followed up to this minute of the day
MaxClock == 1200

\* currentTime of the constructor, 06:00
DayStart == 360

\* minutes that one advanceTime adds
TimeStep == 15

\* the hour from which advanceTime stops the demo
EndOfDayHour == 19

getHours(t) == (t \div 60) % 24

Scenario4 ==
    [ page |-> "scenario4",
      currentTime |-> DayStart,
      isPlaying |-> FALSE,
      playInterval |-> FALSE,      \* FALSE: null, TRUE: the id of the latest interval
      running |-> 0,               \* intervals set by startDemo and not cleared
      playButton |-> "initial" ]   \* innerHTML of #playButton

DemoInit == ControllerInit(Scenario4)

startDemo(c) == [c EXCEPT !.playInterval = TRUE, !.running = @ + 1]

pauseDemo(c) ==
    IF c.playInterval
    THEN [c EXCEPT !.playInterval = FALSE, !.running = @ - 1]
    ELSE c

\* click on #playButton
toggleDemo ==
    /\ ctl' = IF ctl.isPlaying
              THEN [pauseDemo(ctl) EXCEPT !.playButton = "Resume Demo",
                                          !.isPlaying = FALSE]
              ELSE [startDemo(ctl) EXCEPT !.playButton = "Pause Demo",
                                          !.isPlaying = TRUE]
    /\ Still

\* a tick of the interval of startDemo
advanceTime ==
    /\ ctl.running > 0
    /\ ctl.currentTime < MaxClock
    /\ \E c \in {[ctl EXCEPT !.currentTime = @ + TimeStep]} :
          ctl' = IF getHours(c.currentTime) >= EndOfDayHour
                 THEN [pauseDemo(c) EXCEPT !.playButton = "Restart Demo"]
                 ELSE c
    /\ Still

DemoNext ==
    \/ toggleDemo
    \/ advanceTime

DemoSpec == DemoInit /\ [][DemoNext]_vars

\* C28: isPlaying is true exactly when the interval of startDemo is running.
C28_PlayingIffInterval ==
    /\ ctl.isPlaying <=> ctl.playInterval
    /\ ctl.isPlaying <=> ctl.running > 0

(***************************************************************************)
(* MapScenarioController (part_003) on the map of map-controller.js.       *)
(* The sites are those the map has loaded, each with a marker.  Followed   *)
(* are the expansion and the optimization scenario and the close button;   *)
(* progress is the integer part of the percentage.                         *)
(***************************************************************************)
\* how many scenarios the user starts
MaxScenarios == 2

\* how many sites the map has loaded, all of them in Mumbai
MaxSites == 3

Sites == 1..MaxSites

\* the sites with evaluated set, in the order of their scores, and those of
\* them with a score of 65 or more
EvaluatedSites == <<1, 2>>

RecommendedSites == {1}

Invocations == 1..MaxScenarios

NoInvocation == [kind |-> "none", pc |-> "done", i |-> 0]

MapScenario ==
    [ page |-> "map",
      activeScenario |-> "null",
      overlay |-> FALSE,            \* #scenarioOverlay is displayed
      status |-> <<"", 0>>,         \* text of #scenarioStatus, with the number it names
      progress |-> 0,               \* width of #scenarioProgress
      highlighted |-> {},           \* markers scaled up
      pulse |-> {},                 \* markers with the class marker-pulse
      started |-> 0,                \* scenarios started so far
      scenarios |-> [n \in Invocations |-> NoInvocation] ]

MapInit == ControllerInit(MapScenario)

\* highlightSites (map-controller.js 761-787): every marker is scaled back,
\* the given ones are scaled up and get the class marker-pulse
highlightSites(c, siteIds) ==
    [c EXCEPT !.highlighted = siteIds \cap Sites, !.pulse = @ \cup (siteIds \cap Sites)]

showScenarioOverlay(c, title, initialStatus) ==
    [c EXCEPT !.status = <<initialStatus, 0>>, !.progress = 0, !.overlay = TRUE,
              !.activeScenario = title]

\* the sites the scenario of the given kind walks through, in order
SitesOf(kind) ==
    IF kind = "expansion" THEN [k \in 1..MaxSites |-> k] ELSE EvaluatedSites

\* the body of the loop for the site at index i (from 0), up to its sleep
LoopBody(c, n, kind, i) ==
    LET sites == SitesOf(kind)
        shown == [c EXCEPT !.progress = ((i + 1) * 100) \div Len(sites),
                           !.status = <<IF kind = "expansion" THEN "Evaluating site"
                                        ELSE "Selected site", i + 1>>,
                           !.scenarios[n] = [kind |-> kind, pc |-> "sleep", i |-> i]]
    IN  highlightSites(shown,
                       IF kind = "expansion" THEN {sites[i + 1]}
                       ELSE {sites[k] : k \in 1..(i + 1)})

\* click on #scenarioExpansion: up to the first sleep of the loop
executeExpansionScenario ==
    /\ ctl.started < MaxScenarios
    /\ ctl' = LoopBody(showScenarioOverlay([ctl EXCEPT !.started = @ + 1],
                                           "Mumbai Metro Expansion", "Analyzing 15 sites"),
                       ctl.started + 1, "expansion", 0)
    /\ Still

\* click on #scenarioOptimization: up to the sleep before the loop
executeOptimizationScenario ==
    /\ ctl.started < MaxScenarios
    /\ ctl' = [showScenarioOverlay([ctl EXCEPT !.started = @ + 1],
                                   "Network Optimization", "Optimizing site selection")
                  EXCEPT !.status = <<"Analyzing all evaluated sites", 0>>,
                         !.scenarios[ctl.started + 1] =
                             [kind |-> "optimization", pc |-> "analysis", i |-> 0]]
    /\ Still

\* the sleep of scenario n is over: the next turn of the loop, or its end
scenarioSleepDone(n) ==
    /\ ctl.scenarios[n].pc \in {"analysis", "sleep"}
    /\ \E s \in {ctl.scenarios[n]} :
          ctl' = IF s.pc = "analysis"
                 THEN LoopBody(ctl, n, s.kind, 0)
                 ELSE IF s.i + 1 < Len(SitesOf(s.kind))
                 THEN LoopBody(ctl, n, s.kind, s.i + 1)
                 ELSE [ctl EXCEPT
                         !.status = <<"complete", 0>>,
                         !.scenarios[n].pc =
                             IF s.kind = "expansion" THEN "recommend" ELSE "done"]
    /\ Still

\* the timeout at the end of the expansion scenario fires
showRecommended(n) ==
    /\ ctl.scenarios[n].pc = "recommend"
    /\ ctl' = highlightSites([ctl EXCEPT !.scenarios[n].pc = "done"], RecommendedSites)
    /\ Still

\* click on #btnCloseScenario
closeScenarioOverlay ==
    /\ ctl' = [highlightSites(ctl, {}) EXCEPT !.overlay = FALSE, !.activeScenario = "null"]
    /\ Still

MapNext ==
    \/ executeExpansionScenario
    \/ executeOptimizationScenario
    \/ \E n \in Invocations : scenarioSleepDone(n)
    \/ \E n \in Invocations : showRecommended(n)
    \/ closeScenarioOverlay

MapSpec == MapInit /\ [][MapNext]_vars

\* C29: while the overlay is closed, a step that starts no scenario leaves
\* every highlight cleared and the status and the progress as they are.
C29_ClosedOverlayIsQuiet ==
    [][(~ctl.overlay /\ ctl'.started = ctl.started) =>
          /\ ctl'.highlighted = {}
          /\ ctl'.status = ctl.status
          /\ ctl'.progress = ctl.progress]_vars

(***************************************************************************)
(* Scenario7Controller: the price simulator.  Every control writes its     *)
(* field of priceSimulation and calls updatePriceSimulation, which posts   *)
(* the settings as they are at the call.  The backend is not part of the   *)
(* sources: the simulation it returns is written as the settings it was    *)
(* computed for, which updateSimulatorDisplay puts on the page.            *)
(***************************************************************************)
\* how many simulate-price requests are sent
MaxRequests == 3

\* the values the controls offer, the first being that of the constructor
SettingValues ==
    [ station_id |-> {"CNG-002", "CNG-004"},
      time_of_day |-> {19, 8},
      demand_level |-> {"high", "low"},
      weather |-> {"sunny", "rainy"},
      customer_tier |-> {"diamond", "gold"} ]

NoSimulation == [station_id |-> "", time_of_day |-> 0, demand_level |-> "",
                 weather |-> "", customer_tier |-> ""]

Simulator ==
    [ page |-> "simulator",
      priceSimulation |-> [station_id |-> "CNG-002", time_of_day |-> 19,
                           demand_level |-> "high", weather |-> "sunny",
                           customer_tier |-> "diamond"],
      sent |-> 0,               \* simulate-price requests sent so far
      requests |-> {},          \* those in flight, each with the body it posted
      succeeded |-> {},         \* those answered with success
      display |-> NoSimulation ]   \* the simulation the simulator shows

SimulatorInit == ControllerInit(Simulator)

\* updatePriceSimulation up to its fetch
updatePriceSimulation(c) ==
    [c EXCEPT !.sent = @ + 1,
              !.requests = @ \cup {[id |-> c.sent + 1, body |-> c.priceSimulation]}]

\* click on btnShowSimulator
showPriceSimulator ==
    /\ ctl.sent < MaxRequests
    /\ ctl' = updatePriceSimulation(ctl)
    /\ Still

\* the handler of one of the five controls
settingChanged(field, value) ==
    /\ ctl.sent < MaxRequests
    /\ value # ctl.priceSimulation[field]
    /\ ctl' = updatePriceSimulation([ctl EXCEPT !.priceSimulation[field] = value])
    /\ Still

\* the answer to the request id arrives: updateSimulatorDisplay on success
updatePriceSimulationDone(id, ok) ==
    /\ \E q \in ctl.requests :
          /\ q.id = id
          /\ ctl' = IF ok
                    THEN [ctl EXCEPT !.requests = @ \ {q},
                                     !.succeeded = @ \cup {q.id},
                                     !.display = q.body]
                    ELSE [ctl EXCEPT !.requests = @ \ {q}]
    /\ Still

SimulatorNext ==
    \/ showPriceSimulator
    \/ \E field \in DOMAIN SettingValues :
          \E value \in SettingValues[field] : settingChanged(field, value)
    \/ \E id \in 1..MaxRequests, ok \in BOOLEAN : updatePriceSimulationDone(id, ok)

SimulatorSpec == SimulatorInit /\ [][SimulatorNext]_vars

\* C30: when every request has been answered and the latest one with
\* success, the simulator shows the simulation of the current settings.
C30_DisplayShowsLatest ==
    (ctl.page = "simulator" /\ ctl.requests = {} /\ ctl.sent \in ctl.succeeded)
        => ctl.display = ctl.priceSimulation
====
